---- MODULE Spec2Model ----
(***************************************************************************)
(* A model of the Typst drawing backend for plotters (src/src/lib.rs).     *)
(*                                                                         *)
(* Text is modelled as a sequence of tokens (strings).  A format! literal  *)
(* is cut into one or more tokens, an integer argument is formatted into   *)
(* its sign and decimal digits, one token per character, and the text of   *)
(* draw_text is one token per character.  The line feed is the token "\n". *)
(* f64 values that have no exact decimal form here (a square root, an      *)
(* arc tangent, a quotient by 1.24) are formatted as a symbolic token      *)
(* sequence that names the value.                                          *)
(***************************************************************************)
EXTENDS Integers, Sequences, FiniteSets, TLC

(* ---------------------------------------------------------------------- *)
(* Bounds of the model                                                     *)
(* ---------------------------------------------------------------------- *)

\* Number of operations (draw calls, present, drop) issued on one canvas.
MaxOps == 3

\* Length of the texts handed to draw_text when every text is tried.
MaxTextLen == 4

\* Length of the byte sequences handed to base64_encode when every one is tried.
MaxDataLen == 5

(* ---------------------------------------------------------------------- *)
(* Machine integers                                                        *)
(* ---------------------------------------------------------------------- *)

\* i32::MAX; BackendCoord is (i32, i32).
MaxI32 == 2147483647

\* i32::MIN
MinI32 == -MaxI32 - 1

\* A u32 is the record [hi, lo] of its top bit and its low 31 bits.
u32(n) == [hi |-> 0, lo |-> n]

\* The u32 value 2^31 + n.
u32_high(n) == [hi |-> 1, lo |-> n]

\* `radius as i32`: the bit pattern reinterpreted as two's complement.
as_i32(u) == IF u.hi = 0 THEN u.lo ELSE MinI32 + u.lo

\* Whether a - b leaves the range of i32.
sub_overflows(a, b) ==
    \/ b > 0 /\ a < MinI32 + b
    \/ b < 0 /\ a > MaxI32 + b

\* a - b in i32, wrapped modulo 2^32 (a build without overflow checks).
wrapping_sub(a, b) ==
    IF b > 0 /\ a < MinI32 + b
    THEN ((a - MinI32) + (MaxI32 - b)) + 1
    ELSE IF b < 0 /\ a > MaxI32 + b
         THEN ((a - MaxI32) + (MinI32 - b)) - 1
         ELSE a - b

(* ---------------------------------------------------------------------- *)
(* Display formatting ({} of format!)                                      *)
(* ---------------------------------------------------------------------- *)

Digit(d) == <<"0", "1", "2", "3", "4", "5", "6", "7", "8", "9">>[d + 1]

RECURSIVE fmt_nat(_)
\* Decimal digits of n >= 0, most significant first.
fmt_nat(n) ==
    IF n < 10 THEN <<Digit(n)>> ELSE fmt_nat(n \div 10) \o <<Digit(n % 10)>>

\* Decimal digits of -n for n < 0 (i32::MIN has no positive counterpart in i32).
fmt_magnitude(n) ==
    LET m == -(n + 1)
        q == m \div 10
        r == m % 10
    IN  IF r < 9
        THEN (IF q = 0 THEN <<>> ELSE fmt_nat(q)) \o <<Digit(r + 1)>>
        ELSE fmt_nat(q + 1) \o <<"0">>

\* Display of an i32.
fmt_i32(n) == IF n < 0 THEN <<"-">> \o fmt_magnitude(n) ELSE fmt_nat(n)

\* Display of a u32.
fmt_u32(u) ==
    IF u.hi = 0
    THEN fmt_nat(u.lo)
    ELSE LET q0 == MaxI32 \div 10
             r0 == (MaxI32 % 10) + 1
             ql == u.lo \div 10
             rl == u.lo % 10
         IN  fmt_nat(q0 + ql + (IF r0 + rl >= 10 THEN 1 ELSE 0))
                 \o <<Digit((r0 + rl) % 10)>>

\* Display of the f64 |n| for an i32 n.
fmt_abs(n) == IF n < 0 THEN fmt_magnitude(n) ELSE fmt_nat(n)

\* Display of the f64 (dx * dx + dy * dy).sqrt().
fmt_length(dx, dy) ==
    IF dy = 0 THEN fmt_abs(dx)
    ELSE IF dx = 0 THEN fmt_abs(dy)
    ELSE <<"sqrt(sq(">> \o fmt_i32(dx) \o <<")+sq(">> \o fmt_i32(dy) \o <<"))">>

\* Display of the f64 dy.atan2(dx).to_degrees().
fmt_angle(dx, dy) ==
    IF dy = 0 THEN (IF dx < 0 THEN <<"1", "8", "0">> ELSE <<"0">>)
    ELSE IF dx = 0 THEN (IF dy < 0 THEN <<"-", "9", "0">> ELSE <<"9", "0">>)
    ELSE <<"atan2deg(">> \o fmt_i32(dy) \o <<",">> \o fmt_i32(dx) \o <<")">>

(* ---------------------------------------------------------------------- *)
(* Colors: [rgb |-> <<r, g, b>>, alpha |-> thousandths of the f64 alpha]   *)
(* ---------------------------------------------------------------------- *)

\* `(color.alpha * 100.0) as u32`: truncation, saturating at 0.
alpha_percent(alpha) == IF alpha < 0 THEN 0 ELSE alpha \div 10

make_typst_color(color) ==
    IF color.alpha < 1000
    THEN <<"rgb(">> \o fmt_nat(color.rgb[1]) \o <<", ">> \o fmt_nat(color.rgb[2])
             \o <<", ">> \o fmt_nat(color.rgb[3]) \o <<", ">>
             \o fmt_nat(alpha_percent(color.alpha)) \o <<"%)">>
    ELSE <<"rgb(">> \o fmt_nat(color.rgb[1]) \o <<", ">> \o fmt_nat(color.rgb[2])
             \o <<", ">> \o fmt_nat(color.rgb[3]) \o <<")">>

(* ---------------------------------------------------------------------- *)
(* The backend: self = [target, size, saved], target = [kind, buf]         *)
(* ---------------------------------------------------------------------- *)

\* Target::get_mut: the buffer of either variant.
get_mut(target) ==
    CASE target.kind = "File" -> target.buf
      [] target.kind = "Buffer" -> target.buf

\* escape_text's str::replace of one character by a string.
RECURSIVE replace(_, _, _)
replace(text, from, to) ==
    IF text = <<>> THEN <<>>
    ELSE (IF Head(text) = from THEN to ELSE <<Head(text)>>)
             \o replace(Tail(text), from, to)

\* escape_text, faulty: the backslash is replaced last, so the backslashes
\* that escape the other three characters are escaped again.
escape_text_backslash_last(text) ==
    replace(replace(replace(replace(text,
        "\"", <<"\\", "\"">>),
        "#", <<"\\", "#">>),
        "$", <<"\\", "$">>),
        "\\", <<"\\", "\\">>)

escape_text(text) ==
    replace(replace(replace(replace(text,
        "\\", <<"\\", "\\">>),
        "\"", <<"\\", "\"">>),
        "#", <<"\\", "#">>),
        "$", <<"\\", "$">>)

\* write_command, faulty: the command is put in front of the buffer.
write_command_in_front(self, command) ==
    [self EXCEPT !.target.buf = (command \o <<"\n">>) \o get_mut(self.target)]

write_command(self, command) ==
    [self EXCEPT !.target.buf = (get_mut(self.target) \o command) \o <<"\n">>]

init_canvas(self, size) ==
    [self EXCEPT !.target.buf =
        get_mut(self.target) \o <<"#box(", "width: ">> \o fmt_u32(size[1])
            \o <<"pt, height: ">> \o fmt_u32(size[2]) \o <<"pt, clip: true)[">>
            \o <<"\n">>]

\* TypstBackend::new: an owned, empty buffer destined for the file at `path`.
new(size) ==
    init_canvas([target |-> [kind |-> "File", buf |-> <<>>],
                 size |-> size, saved |-> FALSE], size)

\* TypstBackend::with_string: the caller's buffer, whatever it holds.
with_string(buf, size) ==
    init_canvas([target |-> [kind |-> "Buffer", buf |-> buf],
                 size |-> size, saved |-> FALSE], size)

get_size(self) == self.size

ensure_prepared(self) == [self |-> self, ret |-> "Ok"]

\* The bytes of `buf` that reach the file: io.written is "all", "half" or "none".
written_prefix(buf, io) ==
    CASE io.written = "all" -> buf
      [] io.written = "half" -> SubSeq(buf, 1, Len(buf) \div 2)
      [] io.written = "none" -> <<>>

\* present, faulty: saved is not set after a successful write.
present_never_saved(self, file, io) ==
    IF ~self.saved
    THEN LET closed == write_command(self, <<"]">>)
             buf == get_mut(closed.target)
         IN  IF closed.target.kind = "File"
             THEN IF ~io.create
                  THEN [self |-> closed, file |-> file, creates |-> 1,
                        ret |-> "Err(DrawingError(create))"]
                  ELSE IF io.written # "all" /\ io.reported
                  THEN [self |-> closed, creates |-> 1,
                        file |-> [exists |-> TRUE, data |-> written_prefix(buf, io)],
                        ret |-> "Err(DrawingError(write))"]
                  ELSE [self |-> closed, creates |-> 1,
                        file |-> [exists |-> TRUE, data |-> written_prefix(buf, io)],
                        ret |-> "Ok"]
             ELSE [self |-> closed, file |-> file, creates |-> 0, ret |-> "Ok"]
    ELSE [self |-> self, file |-> file, creates |-> 0, ret |-> "Ok"]

\* present.  io is what the file system does: whether File::create succeeds,
\* how much of the buffer reaches the file, and whether a short write is
\* reported by write_all or lost when the BufWriter is dropped.  creates
\* counts the File::create calls made.
present(self, file, io) ==
    IF ~self.saved
    THEN LET closed == write_command(self, <<"]">>)
             buf == get_mut(closed.target)
         IN  IF closed.target.kind = "File"
             THEN IF ~io.create
                  THEN [self |-> closed, file |-> file, creates |-> 1,
                        ret |-> "Err(DrawingError(create))"]
                  ELSE IF io.written # "all" /\ io.reported
                  THEN [self |-> closed, creates |-> 1,
                        file |-> [exists |-> TRUE, data |-> written_prefix(buf, io)],
                        ret |-> "Err(DrawingError(write))"]
                  ELSE [self |-> [closed EXCEPT !.saved = TRUE], creates |-> 1,
                        file |-> [exists |-> TRUE, data |-> written_prefix(buf, io)],
                        ret |-> "Ok"]
             ELSE [self |-> [closed EXCEPT !.saved = TRUE], file |-> file,
                   creates |-> 0, ret |-> "Ok"]
    ELSE [self |-> self, file |-> file, creates |-> 0, ret |-> "Ok"]

\* Drop for TypstBackend: the result of the implicit present is discarded.
drop(self, file, io) ==
    IF ~self.saved
    THEN LET r == present(self, file, io)
         IN  [self |-> r.self, file |-> r.file, creates |-> r.creates]
    ELSE [self |-> self, file |-> file, creates |-> 0]

(* ---------------------------------------------------------------------- *)
(* Draw calls.  Each gives [self, ret]; ret is "Ok", an "Err(...)" or      *)
(* "panic".  `checked` tells whether the build checks arithmetic overflow  *)
(* (it then panics) or wraps.                                              *)
(* ---------------------------------------------------------------------- *)

\* draw_pixel, faulty: the alpha test is missing.
draw_pixel_any_alpha(self, point, color) ==
    [self |-> write_command(self,
                <<"  ", "#place(", "dx: ">> \o fmt_i32(point[1]) \o <<"pt, dy: ">>
                    \o fmt_i32(point[2])
                    \o <<"pt, ", "rect(", "width: 1pt, height: 1pt, ", "fill: ">>
                    \o make_typst_color(color) \o <<", ", "stroke: none", "))">>),
     ret |-> "Ok"]

draw_pixel(self, point, color) ==
    IF color.alpha = 0
    THEN [self |-> self, ret |-> "Ok"]
    ELSE [self |-> write_command(self,
                <<"  ", "#place(", "dx: ">> \o fmt_i32(point[1]) \o <<"pt, dy: ">>
                    \o fmt_i32(point[2])
                    \o <<"pt, ", "rect(", "width: 1pt, height: 1pt, ", "fill: ">>
                    \o make_typst_color(color) \o <<", ", "stroke: none", "))">>),
          ret |-> "Ok"]

draw_line(self, from, to, style, checked) ==
    IF style.color.alpha = 0
    THEN [self |-> self, ret |-> "Ok"]
    ELSE IF checked /\ (sub_overflows(to[1], from[1]) \/ sub_overflows(to[2], from[2]))
    THEN [self |-> self, ret |-> "panic"]
    ELSE LET color == make_typst_color(style.color)
             stroke_width == style.stroke_width
             dx == wrapping_sub(to[1], from[1])
             dy == wrapping_sub(to[2], from[2])
         IN  [self |-> write_command(self,
                    <<"  ", "#place(", "dx: ">> \o fmt_i32(from[1]) \o <<"pt, dy: ">>
                        \o fmt_i32(from[2]) \o <<"pt, ", "line(", "length: ">>
                        \o fmt_length(dx, dy) \o <<"pt, angle: ">> \o fmt_angle(dx, dy)
                        \o <<"deg, ", "stroke: ">> \o fmt_u32(stroke_width)
                        \o <<"pt + ">> \o color \o <<"))">>),
              ret |-> "Ok"]

\* The (fill_attr, stroke_attr) pair of draw_rect and draw_circle.
fill_stroke_attrs(style, fill) ==
    IF fill
    THEN <<"fill: ">> \o make_typst_color(style.color) \o <<", ", "stroke: none">>
    ELSE <<"fill: none", ", ", "stroke: ">> \o fmt_u32(style.stroke_width)
             \o <<"pt + ">> \o make_typst_color(style.color)

draw_rect(self, upper_left, bottom_right, style, fill, checked) ==
    IF style.color.alpha = 0
    THEN [self |-> self, ret |-> "Ok"]
    ELSE IF checked /\ (\/ sub_overflows(bottom_right[1], upper_left[1])
                        \/ sub_overflows(bottom_right[2], upper_left[2]))
    THEN [self |-> self, ret |-> "panic"]
    ELSE LET width == wrapping_sub(bottom_right[1], upper_left[1])
             height == wrapping_sub(bottom_right[2], upper_left[2])
         IN  [self |-> write_command(self,
                    <<"  ", "#place(", "dx: ">> \o fmt_i32(upper_left[1])
                        \o <<"pt, dy: ">> \o fmt_i32(upper_left[2])
                        \o <<"pt, ", "rect(", "width: ">> \o fmt_i32(width)
                        \o <<"pt, height: ">> \o fmt_i32(height) \o <<"pt, ">>
                        \o fill_stroke_attrs(style, fill) \o <<"))">>),
              ret |-> "Ok"]

\* The loop of draw_path over points.windows(2), from window i on.
RECURSIVE draw_windows(_, _, _, _, _)
draw_windows(self, points, i, style, checked) ==
    IF i + 1 > Len(points)
    THEN [self |-> self, ret |-> "Ok"]
    ELSE LET r == draw_line(self, points[i], points[i + 1], style, checked)
         IN  IF r.ret # "Ok"
             THEN r
             ELSE draw_windows(r.self, points, i + 1, style, checked)

\* draw_path, faulty: the segments are taken from disjoint pairs (chunks(2)).
RECURSIVE draw_chunks(_, _, _, _, _)
draw_chunks(self, points, i, style, checked) ==
    IF i + 1 > Len(points)
    THEN [self |-> self, ret |-> "Ok"]
    ELSE LET r == draw_line(self, points[i], points[i + 1], style, checked)
         IN  IF r.ret # "Ok"
             THEN r
             ELSE draw_chunks(r.self, points, i + 2, style, checked)

draw_path_chunked(self, path, style, checked) ==
    IF style.color.alpha = 0
    THEN [self |-> self, ret |-> "Ok"]
    ELSE IF Len(path) < 2
    THEN [self |-> self, ret |-> "Ok"]
    ELSE draw_chunks(self, path, 1, style, checked)

\* draw_path, faulty: a last segment closes the path into an outline.
draw_path_closed(self, path, style, checked) ==
    IF style.color.alpha = 0
    THEN [self |-> self, ret |-> "Ok"]
    ELSE IF Len(path) < 2
    THEN [self |-> self, ret |-> "Ok"]
    ELSE LET r == draw_windows(self, path, 1, style, checked)
         IN  IF r.ret # "Ok"
             THEN r
             ELSE draw_line(r.self, path[Len(path)], path[1], style, checked)

draw_path(self, path, style, checked) ==
    IF style.color.alpha = 0
    THEN [self |-> self, ret |-> "Ok"]
    ELSE IF Len(path) < 2
    THEN [self |-> self, ret |-> "Ok"]
    ELSE draw_windows(self, path, 1, style, checked)

\* points.iter().map(|(x, y)| format!("({}pt, {}pt)", x, y)).join(", ")
RECURSIVE points_str(_)
points_str(points) ==
    IF points = <<>> THEN <<>>
    ELSE <<"(">> \o fmt_i32(Head(points)[1]) \o <<"pt, ">>
             \o fmt_i32(Head(points)[2]) \o <<"pt)">>
             \o (IF Tail(points) = <<>> THEN <<>> ELSE <<", ">>)
             \o points_str(Tail(points))

\* fill_polygon, faulty: the first vertex is repeated to close the outline.
fill_polygon_closed(self, path, style) ==
    IF style.color.alpha = 0
    THEN [self |-> self, ret |-> "Ok"]
    ELSE IF path = <<>>
    THEN [self |-> self, ret |-> "Ok"]
    ELSE [self |-> write_command(self,
                <<"  ", "#place(", "polygon(", "fill: ">>
                    \o make_typst_color(style.color) \o <<", ", "stroke: none", ", ">>
                    \o points_str(path \o <<Head(path)>>) \o <<"))">>),
          ret |-> "Ok"]

fill_polygon(self, path, style) ==
    IF style.color.alpha = 0
    THEN [self |-> self, ret |-> "Ok"]
    ELSE IF path = <<>>
    THEN [self |-> self, ret |-> "Ok"]
    ELSE [self |-> write_command(self,
                <<"  ", "#place(", "polygon(", "fill: ">>
                    \o make_typst_color(style.color) \o <<", ", "stroke: none", ", ">>
                    \o points_str(path) \o <<"))">>),
          ret |-> "Ok"]

draw_circle(self, center, radius, style, fill, checked) ==
    IF style.color.alpha = 0
    THEN [self |-> self, ret |-> "Ok"]
    ELSE IF checked /\ (\/ sub_overflows(center[1], as_i32(radius))
                        \/ sub_overflows(center[2], as_i32(radius)))
    THEN [self |-> self, ret |-> "panic"]
    ELSE [self |-> write_command(self,
                <<"  ", "#place(", "dx: ">>
                    \o fmt_i32(wrapping_sub(center[1], as_i32(radius)))
                    \o <<"pt, dy: ">>
                    \o fmt_i32(wrapping_sub(center[2], as_i32(radius)))
                    \o <<"pt, ", "circle(", "radius: ">> \o fmt_u32(radius)
                    \o <<"pt, ">> \o fill_stroke_attrs(style, fill) \o <<"))">>),
          ret |-> "Ok"]

\* Display of the f64 style.size() / 1.24.
fmt_font_size(size) == <<"div(">> \o fmt_nat(size) \o <<", 1.24)">>

draw_text(self, text, style, pos) ==
    IF style.color.alpha = 0
    THEN [self |-> self, ret |-> "Ok"]
    ELSE LET text_color == make_typst_color(style.color)
             font_size == fmt_font_size(style.size)
             escaped_text == escape_text(text)
             font_family ==
                 CASE style.family = "sans-serif" -> "Liberation Sans"
                   [] style.family = "serif" -> "Liberation Serif"
                   [] style.family = "monospace" -> "Liberation Mono"
                   [] OTHER -> style.family
             edges ==
                 CASE style.anchor.v_pos = "Top" -> <<"\"bounds\"", "\"bounds\"">>
                   [] style.anchor.v_pos = "Center" -> <<"\"cap-height\"", "\"baseline\"">>
                   [] style.anchor.v_pos = "Bottom" -> <<"\"baseline\"", "\"baseline\"">>
             font_weight ==
                 IF style.style = "Bold" THEN "\"bold\"" ELSE "\"regular\""
             font_style_attr ==
                 IF style.style \in {"Italic", "Oblique"}
                 THEN "\"italic\"" ELSE "\"normal\""
             rotation_attr ==
                 CASE style.transform = "Rotate90" -> <<"rotate(90deg, ">>
                   [] style.transform = "Rotate180" -> <<"rotate(180deg, ">>
                   [] style.transform = "Rotate270" -> <<"rotate(270deg, ">>
                   [] OTHER -> <<>>
             rotation_close == IF rotation_attr = <<>> THEN <<>> ELSE <<")">>
             aligned_text ==
                 CASE style.anchor.h_pos = "Left" -> escaped_text
                   [] style.anchor.h_pos = "Right" ->
                        <<"#context { let m = measure([">> \o escaped_text
                            \o <<"]); h(-m.width); [">> \o escaped_text \o <<"] }">>
                   [] style.anchor.h_pos = "Center" ->
                        <<"#context { let m = measure([">> \o escaped_text
                            \o <<"]); h(-m.width / 2); [">> \o escaped_text
                            \o <<"] }">>
         IN  [self |-> write_command(self,
                    <<"  ", "#place(", "dx: ">> \o fmt_i32(pos[1]) \o <<"pt, dy: ">>
                        \o fmt_i32(pos[2]) \o <<"pt, ">> \o rotation_attr
                        \o <<"box[#set text(size: ">> \o font_size \o <<"pt, fill: ">>
                        \o text_color \o <<", weight: ", font_weight, ", style: ",
                                           font_style_attr, ", font: \"", font_family,
                                           "\", top-edge: ", edges[1],
                                           ", bottom-edge: ", edges[2], "); ">>
                        \o aligned_text \o <<"]">> \o rotation_close \o <<")">>),
              ret |-> "Ok"]

\* const BASE64_CHARS
BASE64_CHARS ==
    << "A", "B", "C", "D", "E", "F", "G", "H", "I", "J", "K", "L", "M",
       "N", "O", "P", "Q", "R", "S", "T", "U", "V", "W", "X", "Y", "Z",
       "a", "b", "c", "d", "e", "f", "g", "h", "i", "j", "k", "l", "m",
       "n", "o", "p", "q", "r", "s", "t", "u", "v", "w", "x", "y", "z",
       "0", "1", "2", "3", "4", "5", "6", "7", "8", "9", "+", "/" >>

\* BASE64_CHARS[i as usize], the index counted from 0.
b64_char(i) == BASE64_CHARS[i + 1]

\* The while loop of base64_encode over full 3-byte groups, from index i
\* (counted from 0): gives [result, i].
RECURSIVE base64_groups(_, _, _)
base64_groups(data, i, result) ==
    IF i + 2 < Len(data)
    THEN LET b1 == data[i + 1]
             b2 == data[i + 2]
             b3 == data[i + 3]
         IN  base64_groups(data, i + 3,
                 result \o << b64_char(b1 \div 4),
                              b64_char(((b1 % 4) * 16) + (b2 \div 16)),
                              b64_char(((b2 % 16) * 4) + (b3 \div 64)),
                              b64_char(b3 % 64) >>)
    ELSE [result |-> result, i |-> i]

\* base64_encode, faulty: in a final group of two bytes the low four bits of
\* the second byte are not shifted into place.
base64_encode_unshifted(data) ==
    LET g == base64_groups(data, 0, <<>>)
        i == g.i
    IN  IF i < Len(data)
        THEN LET b1 == data[i + 1]
             IN  IF i + 1 < Len(data)
                 THEN LET b2 == data[i + 2]
                      IN  g.result \o << b64_char(b1 \div 4),
                                         b64_char(((b1 % 4) * 16) + (b2 \div 16)),
                                         b64_char(b2 % 16),
                                         "=" >>
                 ELSE g.result \o << b64_char(b1 \div 4),
                                     b64_char((b1 % 4) * 16),
                                     "=", "=" >>
        ELSE g.result

base64_encode(data) ==
    LET g == base64_groups(data, 0, <<>>)
        i == g.i
    IN  IF i < Len(data)
        THEN LET b1 == data[i + 1]
             IN  IF i + 1 < Len(data)
                 THEN LET b2 == data[i + 2]
                      IN  g.result \o << b64_char(b1 \div 4),
                                         b64_char(((b1 % 4) * 16) + (b2 \div 16)),
                                         b64_char((b2 % 16) * 4),
                                         "=" >>
                 ELSE g.result \o << b64_char(b1 \div 4),
                                     b64_char((b1 % 4) * 16),
                                     "=", "=" >>
        ELSE g.result

\* blit_bitmap.  png is what the PNG encoder (the image crate) gives for
\* (src, w, h): [ok |-> FALSE] or [ok |-> TRUE, data |-> the encoded bytes].
blit_bitmap(self, pos, wh, png) ==
    IF ~png.ok
    THEN [self |-> self, ret |-> "Err(DrawingError(image))"]
    ELSE [self |-> write_command(self,
                <<"  ", "#place(", "dx: ">> \o fmt_i32(pos[1]) \o <<"pt, dy: ">>
                    \o fmt_i32(pos[2])
                    \o <<"pt, ", "image.decode(", "\"data:image/png;base64,">>
                    \o base64_encode(png.data) \o <<"\", width: ">> \o fmt_u32(wh[1])
                    \o <<"pt, height: ">> \o fmt_u32(wh[2]) \o <<"pt))">>),
          ret |-> "Ok"]

(* ---------------------------------------------------------------------- *)
(* Inputs of the calls                                                     *)
(* ---------------------------------------------------------------------- *)

Transparent == [rgb |-> <<0, 0, 0>>, alpha |-> 0]

Opaque == [rgb |-> <<255, 0, 0>>, alpha |-> 1000]

Translucent == [rgb |-> <<0, 0, 255>>, alpha |-> 500]

Style(color, width) == [color |-> color, stroke_width |-> u32(width)]

TextStyle(color, family, h_pos, v_pos, style, transform) ==
    [color |-> color, size |-> 20, family |-> family,
     anchor |-> [h_pos |-> h_pos, v_pos |-> v_pos],
     style |-> style, transform |-> transform]

Sizes == {<<u32(500), u32(300)>>}

\* What the caller's String holds when it is handed to with_string.
CallerBuffers == {<<"// plot", "\n">>}

PointA == <<3, 4>>

PointB == <<-2, MaxI32>>

PixelArgs == {<<PointA, Opaque>>, <<PointB, Transparent>>}

LineArgs ==
    {<<PointA, PointA, Style(Opaque, 1)>>,
     <<PointB, PointA, Style(Translucent, 2)>>,
     <<PointA, PointB, Style(Transparent, 1)>>}

RectArgs ==
    {<<PointB, PointA, Style(Translucent, 2), FALSE>>,
     <<PointA, PointB, Style(Transparent, 1), TRUE>>}

PathArgs ==
    {<<<<PointA>>, Style(Opaque, 1)>>,
     <<<<PointA, PointB, PointA>>, Style(Opaque, 1)>>,
     <<<<PointA, PointB>>, Style(Transparent, 1)>>}

PolygonArgs ==
    {<<<<>>, Style(Translucent, 1)>>,
     <<<<PointA, PointB, PointA>>, Style(Translucent, 1)>>,
     <<<<PointA, PointB, PointA>>, Style(Transparent, 1)>>}

CircleArgs ==
    {<<<<150, 150>>, u32(50), Style(Opaque, 1), TRUE>>,
     <<PointB, u32_high(0), Style(Opaque, 1), FALSE>>,
     <<PointA, u32(50), Style(Transparent, 1), TRUE>>}

TextArgs ==
    {<< <<"a", "\\", "\"", "#", "$">>,
        TextStyle(Opaque, "sans-serif", "Left", "Top", "Normal", "None"),
        PointA >>,
     << <<"a", "\n", "b">>,
        TextStyle(Translucent, "Arial", "Center", "Center", "Bold", "Rotate90"),
        PointB >>,
     << <<"h", "i">>,
        TextStyle(Transparent, "serif", "Right", "Bottom", "Italic", "Rotate270"),
        PointA >>}

\* What the PNG encoder may give.
PngResults ==
    {[ok |-> FALSE, data |-> <<>>],
     [ok |-> TRUE, data |-> <<137, 80, 78, 71, 13>>]}

BlitArgs == {<<PointA, <<u32(2), u32(1)>>, png>> : png \in PngResults}

\* What the file system may do during one present.
IOs ==
    {[create |-> FALSE, written |-> "none", reported |-> TRUE],
     [create |-> TRUE, written |-> "none", reported |-> TRUE],
     [create |-> TRUE, written |-> "half", reported |-> FALSE],
     [create |-> TRUE, written |-> "all", reported |-> TRUE]}

\* The file system is consulted only by a present that reaches File::create.
NoIO == [create |-> FALSE, written |-> "none", reported |-> FALSE]

IOsFor(s) == IF s.target.kind = "File" /\ ~s.saved THEN IOs ELSE {NoIO}

(* ---------------------------------------------------------------------- *)
(* State                                                                   *)
(* ---------------------------------------------------------------------- *)

VARIABLES
    self,      \* the TypstBackend: [target |-> [kind, buf], size, saved]
    file,      \* the file at `path`: [exists, data]
    pc,        \* "live", "panicked" (unwinding) or "dropped"
    creates,   \* number of File::create calls made so far
    log        \* the calls made so far, the constructor first:
               \* [op, args, at, chunk, ret], at = length of the buffer before
               \* the call, chunk = what the call appended

vars == <<self, file, pc, creates, log>>

buf == get_mut(self.target)

\* What a call that took the buffer from `before` to `after` appended.
Appended(before, after) == SubSeq(after, Len(before) + 1, Len(after))

Entry(op, args, before, after, ret) ==
    [op |-> op, args |-> args, at |-> Len(before),
     chunk |-> Appended(before, after), ret |-> ret]

Init ==
    /\ file = [exists |-> FALSE, data |-> <<>>]
    /\ pc = "live"
    /\ creates = 0
    /\ \E size \in Sizes :
          \/ /\ self = new(size)
             /\ log = <<Entry("new", <<size>>, <<>>, get_mut(self.target), "Ok")>>
          \/ \E b \in CallerBuffers :
                /\ self = with_string(b, size)
                /\ log = <<Entry("with_string", <<b, size>>, b,
                                 get_mut(self.target), "Ok")>>

\* A draw call that gave r = [self, ret].
Drawn(op, args, r) ==
    /\ self' = r.self
    /\ pc' = IF r.ret = "panic" THEN "panicked" ELSE pc
    /\ log' = Append(log, Entry(op, args, buf, get_mut(r.self.target), r.ret))
    /\ UNCHANGED <<file, creates>>

CanCall == pc = "live" /\ Len(log) <= MaxOps

EnsurePrepared ==
    /\ CanCall
    /\ Drawn("ensure_prepared", <<>>, ensure_prepared(self))

DrawPixel ==
    /\ CanCall
    /\ \E a \in PixelArgs : Drawn("draw_pixel", a, draw_pixel(self, a[1], a[2]))

DrawLine ==
    /\ CanCall
    /\ \E a \in LineArgs, checked \in BOOLEAN :
          Drawn("draw_line", a, draw_line(self, a[1], a[2], a[3], checked))

DrawRect ==
    /\ CanCall
    /\ \E a \in RectArgs, checked \in BOOLEAN :
          Drawn("draw_rect", a, draw_rect(self, a[1], a[2], a[3], a[4], checked))

DrawPath ==
    /\ CanCall
    /\ \E a \in PathArgs, checked \in BOOLEAN :
          Drawn("draw_path", a, draw_path(self, a[1], a[2], checked))

FillPolygon ==
    /\ CanCall
    /\ \E a \in PolygonArgs : Drawn("fill_polygon", a, fill_polygon(self, a[1], a[2]))

DrawCircle ==
    /\ CanCall
    /\ \E a \in CircleArgs, checked \in BOOLEAN :
          Drawn("draw_circle", a, draw_circle(self, a[1], a[2], a[3], a[4], checked))

DrawText ==
    /\ CanCall
    /\ \E a \in TextArgs : Drawn("draw_text", a, draw_text(self, a[1], a[2], a[3]))

BlitBitmap ==
    /\ CanCall
    /\ \E a \in BlitArgs : Drawn("blit_bitmap", a, blit_bitmap(self, a[1], a[2], a[3]))

Present ==
    /\ CanCall
    /\ \E io \in IOsFor(self) :
          LET r == present(self, file, io)
          IN  /\ self' = r.self
              /\ file' = r.file
              /\ creates' = creates + r.creates
              /\ log' = Append(log, Entry("present", <<io>>, buf,
                                          get_mut(r.self.target), r.ret))
              /\ pc' = pc

\* The canvas goes out of scope, also while a panic unwinds.
Drop ==
    /\ pc \in {"live", "panicked"}
    /\ Len(log) <= MaxOps
    /\ \E io \in IOsFor(self) :
          LET r == drop(self, file, io)
          IN  /\ self' = r.self
              /\ file' = r.file
              /\ creates' = creates + r.creates
              /\ log' = Append(log, Entry("drop", <<io>>, buf,
                                          get_mut(r.self.target), "()"))
              /\ pc' = "dropped"

Next ==
    \/ EnsurePrepared
    \/ Present
    \/ BlitBitmap
    \/ DrawPixel
    \/ DrawLine
    \/ DrawRect
    \/ DrawPath
    \/ FillPolygon
    \/ DrawCircle
    \/ DrawText
    \/ Drop

Spec == Init /\ [][Next]_vars

(* ---------------------------------------------------------------------- *)
(* draw_text on every text                                                 *)
(* ---------------------------------------------------------------------- *)

\* The characters of the texts: the four that escape_text replaces and one
\* that it does not.
TextChars == {"a", "\\", "\"", "#", "$"}

\* Every text of at most MaxTextLen characters.
Texts == UNION {[1..n -> TextChars] : n \in 0..MaxTextLen}

\* One text style for each horizontal anchor (each arm of aligned_text).
AnchorStyles ==
    {TextStyle(Opaque, "monospace", h, "Top", "Normal", "None") :
        h \in {"Left", "Center", "Right"}}

\* The first call on a new canvas is draw_text, on any text.
DrawAnyText ==
    /\ pc = "live"
    /\ Len(log) = 1
    /\ \E text \in Texts, style \in AnchorStyles :
          Drawn("draw_text", <<text, style, PointA>>,
                draw_text(self, text, style, PointA))

NextText == DrawAnyText

TextSpec == Init /\ [][NextText]_vars

(* ---------------------------------------------------------------------- *)
(* blit_bitmap on every byte sequence                                      *)
(* ---------------------------------------------------------------------- *)

\* The bytes the PNG encoder's output is made of here: 0x00, 0x03, 0xC0, 0xFF
\* and the bytes of "Man".
Bytes == {0, 3, 77, 97, 110, 192, 255}

\* Every byte sequence of at most MaxDataLen bytes.
ByteSeqs == UNION {[1..n -> Bytes] : n \in 0..MaxDataLen}

\* The first call on a new canvas is blit_bitmap, the encoder giving any
\* byte sequence.
BlitAnyBytes ==
    /\ pc = "live"
    /\ Len(log) = 1
    /\ \E data \in ByteSeqs :
          LET a == <<PointA, <<u32(2), u32(1)>>, [ok |-> TRUE, data |-> data]>>
          IN  Drawn("blit_bitmap", a, blit_bitmap(self, a[1], a[2], a[3]))

NextBase64 == BlitAnyBytes

Base64Spec == Init /\ [][NextBase64]_vars

(* ---------------------------------------------------------------------- *)
(* Vocabulary of the properties                                            *)
(* ---------------------------------------------------------------------- *)

Last(seq) == seq[Len(seq)]

IsPrefix(a, b) == Len(a) <= Len(b) /\ SubSeq(b, 1, Len(a)) = a

\* The lines of a text, without their line feeds; feeds are the positions of
\* the line feeds of the text.
RECURSIVE LinesFrom(_, _, _)
LinesFrom(text, start, feeds) ==
    IF start > Len(text) THEN <<>>
    ELSE LET after == {i \in feeds : i >= start}
         IN  IF after = {}
             THEN <<SubSeq(text, start, Len(text))>>
             ELSE LET i == CHOOSE m \in after : \A n \in after : m <= n
                  IN  <<SubSeq(text, start, i - 1)>> \o LinesFrom(text, i + 1, feeds)

Lines(text) == LinesFrom(text, 1, {i \in 1..Len(text) : text[i] = "\n"})

IsOpeningLine(line) == Len(line) >= 1 /\ line[1] = "#box("

IsClosingLine(line) == line = <<"]">>

IsCommandLine(line) == Len(line) >= 2 /\ line[1] = "  " /\ line[2] = "#place("

Openings(lines) == Cardinality({i \in 1..Len(lines) : IsOpeningLine(lines[i])})

Closings(lines) == Cardinality({i \in 1..Len(lines) : IsClosingLine(lines[i])})

\* What the canvas has put into its buffer since it was handed over.
Emitted == SubSeq(buf, log[1].at + 1, Len(buf))

DrawOps ==
    {"draw_pixel", "draw_line", "draw_rect", "draw_path", "fill_polygon",
     "draw_circle", "draw_text"}

\* The color argument of a logged draw call.
ColorOf(e) ==
    CASE e.op = "draw_pixel" -> e.args[2]
      [] e.op \in {"draw_line", "draw_rect", "draw_circle"} -> e.args[3].color
      [] e.op \in {"draw_path", "fill_polygon", "draw_text"} -> e.args[2].color

IsFileBacked == self.target.kind = "File"

\* The step is one call: it extends the log by the entry Last(log').
Called(ops) == Len(log') = Len(log) + 1 /\ Last(log').op \in ops

FailedPresents ==
    Cardinality({i \in 1..Len(log) : log[i].op = "present" /\ log[i].ret # "Ok"})

(* ---------------------------------------------------------------------- *)
(* Properties                                                              *)
(* ---------------------------------------------------------------------- *)

\* C1: whatever constructor, draw, present (succeeding or failing) and drop
\* operations were made, what the canvas emitted starts with the one opening
\* container line and holds at most one closing line `]`.
C1_ContainerEmittedOnce ==
    LET lines == Lines(Emitted)
    IN  /\ Len(lines) >= 1
        /\ IsOpeningLine(lines[1])
        /\ Openings(lines) = 1
        /\ Closings(lines) <= 1

\* C2: a present that directly follows a present changes neither the buffer
\* nor the saved flag nor the file, and returns success.
C2_PresentTwiceAsOnce ==
    [][(Called({"present"}) /\ Last(log).op = "present")
          => /\ buf' = buf
             /\ self'.saved = self.saved
             /\ file' = file
             /\ Last(log').ret = "Ok"]_vars

\* C3: when a present on a file-backed canvas succeeds after an earlier present
\* failed with an I/O error, the document it writes has exactly one opening
\* container line and exactly one closing line `]`.
C3_RetryAfterFailureWritesOneClosing ==
    (/\ IsFileBacked
     /\ FailedPresents >= 1
     /\ Last(log).op = "present"
     /\ Last(log).ret = "Ok"
     /\ Last(log).args[1].written = "all")
        => /\ Openings(Lines(file.data)) = 1
           /\ Closings(Lines(file.data)) = 1

\* C4: a drop finalizes exactly when the canvas is not saved: then it appends
\* the closing line and, on a file-backed canvas, makes one File::create
\* attempt, whose failure does not keep the drop from completing; a saved
\* canvas is dropped without any effect.  So a dropped file-backed canvas has
\* made one attempt per failed explicit present and exactly one more: one in
\* all when its explicit present succeeded, one more on drop when it failed.
C4_DropFinalizesUnlessSaved ==
    [][(pc' = "dropped" /\ pc # "dropped")
          => /\ self.saved => UNCHANGED <<self, file, creates>>
             /\ ~self.saved =>
                   /\ buf' = buf \o <<"]", "\n">>
                   /\ creates' = creates + (IF IsFileBacked THEN 1 ELSE 0)
             /\ IsFileBacked => creates' = FailedPresents + 1
             /\ ~IsFileBacked => creates' = 0]_vars

\* C4 witness: a file-backed canvas whose explicit present failed was dropped,
\* and the drop made the second attempt.
C4_Witness ==
    /\ pc = "dropped"
    /\ IsFileBacked
    /\ FailedPresents = 1
    /\ creates = 2

\* C5: a draw call with a color of alpha 0 returns success and changes
\* neither the buffer nor the saved flag (nor the file).
C5_TransparentDrawIsNoOp ==
    [][(Called(DrawOps) /\ ColorOf(Last(log')).alpha = 0)
          => /\ UNCHANGED <<self, file, pc, creates>>
             /\ Last(log').ret = "Ok"]_vars

\* C5 witness: a transparent draw_text was made after a visible draw call.
C5_Witness ==
    /\ Len(log) >= 3
    /\ Last(log).op = "draw_text"
    /\ ColorOf(Last(log)).alpha = 0
    /\ log[Len(log) - 1].op \in DrawOps
    /\ log[Len(log) - 1].chunk # <<>>

\* C6: every step leaves the buffer it found as a prefix of the buffer it
\* leaves, and what any two calls appended stays in the buffer, unchanged, the
\* text of the earlier call before the text of the later one.
C6_AppendOnlyInOrder ==
    /\ [][IsPrefix(buf, buf')]_vars
    /\ [](\A i, j \in 1..Len(log) :
            (i < j /\ log[i].chunk # <<>> /\ log[j].chunk # <<>>)
               => /\ SubSeq(buf, log[i].at + 1, log[i].at + Len(log[i].chunk))
                        = log[i].chunk
                  /\ SubSeq(buf, log[j].at + 1, log[j].at + Len(log[j].chunk))
                        = log[j].chunk
                  /\ log[i].at + Len(log[i].chunk) <= log[j].at)

\* C6 witness: two different draw calls have each appended a command.
C6_Witness ==
    /\ Len(log) >= 3
    /\ log[2].op \in DrawOps /\ log[2].chunk # <<>>
    /\ log[3].op \in DrawOps /\ log[3].chunk # <<>>
    /\ log[2].op # log[3].op

\* C7: every drawing operation (ensure_prepared, the seven draw calls and
\* blit_bitmap) returns success; only a present on a file-backed canvas
\* returns an error, which wraps the File::create or write failure.
C7_ErrorsOnlyFromPresent ==
    \A i \in 1..Len(log) :
        /\ log[i].op \in DrawOps \cup {"ensure_prepared", "blit_bitmap"}
              => log[i].ret = "Ok"
        /\ (log[i].op = "present" /\ log[i].ret # "Ok")
              => /\ IsFileBacked
                 /\ log[i].ret \in {"Err(DrawingError(create))",
                                    "Err(DrawingError(write))"}

\* The calls between construction and the one present, which succeeded, were
\* all drawing operations.
FinalizedOnce ==
    /\ Len(log) >= 2
    /\ Last(log).op = "present"
    /\ Last(log).ret = "Ok"
    /\ \A i \in 2..(Len(log) - 1) : log[i].op \notin {"present", "drop"}

\* C8 as stated: after draw calls and one successful present, the emitted
\* document is the opening line, one command line per draw call that was not
\* suppressed (that emitted something), each beginning "  #place(", and the
\* closing line.
C8_OneLinePerDrawCall ==
    FinalizedOnce =>
        LET lines == Lines(Emitted)
            n == Cardinality({i \in 2..(Len(log) - 1) : log[i].chunk # <<>>})
        IN  /\ Len(lines) = n + 2
            /\ IsOpeningLine(lines[1])
            /\ \A k \in 2..(n + 1) : IsCommandLine(lines[k])
            /\ IsClosingLine(lines[n + 2])

\* The number of command lines a call is to emit, from its arguments.
ExpectedLines(e) ==
    CASE e.op = "ensure_prepared" -> 0
      [] e.op = "blit_bitmap" -> IF e.args[3].ok THEN 1 ELSE 0
      [] e.op = "draw_path" ->
            IF ColorOf(e).alpha = 0 \/ Len(e.args[1]) < 2
            THEN 0 ELSE Len(e.args[1]) - 1
      [] e.op = "fill_polygon" ->
            IF ColorOf(e).alpha = 0 \/ e.args[1] = <<>> THEN 0 ELSE 1
      [] OTHER -> IF ColorOf(e).alpha = 0 THEN 0 ELSE 1

RECURSIVE ExpectedLinesUpTo(_)
ExpectedLinesUpTo(i) ==
    IF i < 2 THEN 0 ELSE ExpectedLinesUpTo(i - 1) + ExpectedLines(log[i])

NoLineFeedInTexts ==
    \A i \in 1..Len(log) :
        log[i].op = "draw_text"
           => \A k \in 1..Len(log[i].args[1]) : log[i].args[1][k] # "\n"

\* C8 amended: after draw calls (texts without line feed) and one successful
\* present, the emitted document is the opening line, then in call order the
\* command lines of each call (none for a suppressed call, k-1 for a path of
\* k >= 2 points, one for any other call), each beginning "  #place(", then
\* the closing line.
C8_DocumentGrammar ==
    (FinalizedOnce /\ NoLineFeedInTexts) =>
        LET lines == Lines(Emitted)
            n == ExpectedLinesUpTo(Len(log) - 1)
        IN  /\ Len(lines) = n + 2
            /\ IsOpeningLine(lines[1])
            /\ \A k \in 2..(n + 1) : IsCommandLine(lines[k])
            /\ IsClosingLine(lines[n + 2])
            /\ \A i \in 2..(Len(log) - 1) :
                  /\ Len(Lines(log[i].chunk)) = ExpectedLines(log[i])
                  /\ Lines(log[i].chunk)
                        = SubSeq(lines, ExpectedLinesUpTo(i - 1) + 2,
                                 ExpectedLinesUpTo(i) + 1)

\* C8 witness: a path of three points and another visible draw call were
\* made, then the one present.
C8_Witness ==
    /\ FinalizedOnce
    /\ NoLineFeedInTexts
    /\ \E i, j \in 2..(Len(log) - 1) :
          /\ log[i].op = "draw_path"
          /\ Len(log[i].args[1]) = 3
          /\ log[i].chunk # <<>>
          /\ log[j].op \in DrawOps \ {"draw_path"}
          /\ log[j].chunk # <<>>

\* draw_line called for the first n segments of points, in order.
RECURSIVE LineCalls(_, _, _, _)
LineCalls(s, points, n, style) ==
    IF n = 0 THEN s
    ELSE draw_line(LineCalls(s, points, n - 1, style),
                   points[n], points[n + 1], style, FALSE).self

HasToken(line, token) == \E t \in 1..Len(line) : line[t] = token

\* C9: a draw_path with a visible style and k >= 2 points appends exactly k-1
\* line commands and leaves the backend as the draw_line calls for the
\* consecutive pairs of points, made in order, leave it; with fewer than 2
\* points it appends nothing.
C9_PathIsLineCalls ==
    [][(/\ Called({"draw_path"})
        /\ ColorOf(Last(log')).alpha # 0
        /\ Last(log').ret = "Ok")
          => LET points == Last(log').args[1]
                 style == Last(log').args[2]
                 appended == Lines(Last(log').chunk)
             IN  IF Len(points) >= 2
                 THEN /\ self' = LineCalls(self, points, Len(points) - 1, style)
                      /\ Len(appended) = Len(points) - 1
                      /\ \A k \in 1..Len(appended) :
                            /\ IsCommandLine(appended[k])
                            /\ HasToken(appended[k], "line(")
                 ELSE self' = self]_vars

\* C9 witness: a visible path of three points has been drawn as two lines.
C9_Witness ==
    /\ Last(log).op = "draw_path"
    /\ ColorOf(Last(log)).alpha # 0
    /\ Len(Last(log).args[1]) = 3
    /\ Len(Lines(Last(log).chunk)) = 2

\* The first n vertices of points as "(x, y)" pairs in pt, comma-separated.
RECURSIVE Vertices(_, _)
Vertices(points, n) ==
    IF n = 0 THEN <<>>
    ELSE Vertices(points, n - 1) \o (IF n > 1 THEN <<", ">> ELSE <<>>)
             \o <<"(">> \o fmt_i32(points[n][1]) \o <<"pt, ">>
             \o fmt_i32(points[n][2]) \o <<"pt)">>

\* C10: fill_polygon with no points returns success and changes nothing; with
\* points and a visible style it appends one polygon command, filled with the
\* color of the style, stroke none, listing the vertices once each in order.
C10_FillPolygon ==
    [][Called({"fill_polygon"})
          => LET points == Last(log').args[1]
                 style == Last(log').args[2]
             IN  /\ Last(log').ret = "Ok"
                 /\ points = <<>> => UNCHANGED <<self, file, pc, creates>>
                 /\ (points # <<>> /\ style.color.alpha # 0)
                       => buf' = buf
                             \o <<"  ", "#place(", "polygon(", "fill: ">>
                             \o make_typst_color(style.color)
                             \o <<", ", "stroke: none", ", ">>
                             \o Vertices(points, Len(points))
                             \o <<"))", "\n">>]_vars

\* C10 witness: a visible polygon of three vertices has been emitted.
C10_Witness ==
    /\ Last(log).op = "fill_polygon"
    /\ ColorOf(Last(log)).alpha # 0
    /\ Len(Last(log).args[1]) = 3
    /\ Last(log).chunk # <<>>

\* C11: a draw_line call whose two end points are the same point, in a style
\* that is not fully transparent, returns success and leaves the buffer as it
\* was: nothing is emitted for a line of length zero.
C11_ZeroLengthLineIsNoOp ==
    [][(/\ Called({"draw_line"})
        /\ Last(log').args[1] = Last(log').args[2]
        /\ ColorOf(Last(log')).alpha # 0)
       => (/\ Last(log').ret = "Ok"
           /\ buf' = buf
           /\ Last(log').chunk = <<>>)]_vars

\* The four characters escape_text replaces.
Specials == {"\\", "\"", "#", "$"}

\* Each character of the text escaped on its own.
RECURSIVE EscapeEach(_)
EscapeEach(text) ==
    IF text = <<>> THEN <<>>
    ELSE (IF Head(text) \in Specials THEN <<"\\", Head(text)>> ELSE <<Head(text)>>)
             \o EscapeEach(Tail(text))

\* Reads an escaped text from the left: a backslash escapes the character
\* after it.  ok tells that no special character stood un-escaped, out is the
\* text without the escaping backslashes.
RECURSIVE Unescape(_)
Unescape(text) ==
    IF text = <<>> THEN [ok |-> TRUE, out |-> <<>>]
    ELSE IF Head(text) = "\\"
    THEN IF Len(text) = 1
         THEN [ok |-> FALSE, out |-> <<>>]
         ELSE LET rest == Unescape(SubSeq(text, 3, Len(text)))
              IN  [ok |-> rest.ok, out |-> <<text[2]>> \o rest.out]
    ELSE LET rest == Unescape(Tail(text))
         IN  [ok |-> rest.ok /\ Head(text) \notin Specials,
              out |-> <<Head(text)>> \o rest.out]

IsTextChar(token) == token \in TextChars

\* The characters of the text in an emitted draw_text command: the format
\* literals and the digits are tokens outside TextChars.
EmittedText(chunk) == SelectSeq(chunk, IsTextChar)

\* How often aligned_text holds the text.
Copies(text, h_pos) == IF h_pos = "Left" THEN text ELSE text \o text

\* C12: for every text, escape_text gives each character escaped on its own
\* (backslash, double quote, # and $ preceded by one backslash, no backslash
\* escaped twice); in the command draw_text emits none of the four characters
\* of the text stands un-escaped, and taking the escaping backslashes away
\* gives the text back (once, or twice where the alignment repeats it).
C12_EscapeText ==
    \A i \in 2..Len(log) :
        (log[i].op = "draw_text" /\ ColorOf(log[i]).alpha # 0) =>
            LET text == log[i].args[1]
                h_pos == log[i].args[2].anchor.h_pos
                emitted == EmittedText(log[i].chunk)
            IN  /\ escape_text(text) = EscapeEach(text)
                /\ emitted = Copies(EscapeEach(text), h_pos)
                /\ Unescape(emitted) = [ok |-> TRUE, out |-> Copies(text, h_pos)]

\* C12 witness: a text of a backslash and the three other special characters
\* was drawn right-aligned.
C12_Witness ==
    /\ Len(log) = 2
    /\ log[2].op = "draw_text"
    /\ log[2].ret = "Ok"
    /\ log[2].args[1] = <<"\\", "\"", "#", "$">>
    /\ log[2].args[2].anchor.h_pos = "Right"
    /\ Len(EmittedText(log[2].chunk)) = 16

\* The eight bits of a byte, the most significant first.
BitsOf(byte) == [k \in 1..8 |-> (byte \div (2 ^ (8 - k))) % 2]

\* The bits of a byte sequence.
RECURSIVE BitString(_)
BitString(data) ==
    IF data = <<>> THEN <<>> ELSE BitsOf(Head(data)) \o BitString(Tail(data))

\* The bit string filled with zero bits up to a multiple of six.
RECURSIVE ZeroFilled(_)
ZeroFilled(bits) == IF Len(bits) % 6 = 0 THEN bits ELSE ZeroFilled(Append(bits, 0))

\* The value of the six bits at positions j .. j + 5.
Sextet(bits, j) ==
    (32 * bits[j]) + (16 * bits[j + 1]) + (8 * bits[j + 2]) + (4 * bits[j + 3])
        + (2 * bits[j + 4]) + bits[j + 5]

\* The text filled with `=` up to a multiple of four characters.
RECURSIVE Padded(_)
Padded(text) == IF Len(text) % 4 = 0 THEN text ELSE Padded(Append(text, "="))

\* Standard base 64 (RFC 4648): the bits of the input, six at a time, each
\* six the index of a character of the alphabet A-Z a-z 0-9 + /.
StandardBase64(data) ==
    LET bits == ZeroFilled(BitString(data))
    IN  Padded([c \in 1..(Len(bits) \div 6) |->
                    BASE64_CHARS[Sextet(bits, (6 * (c - 1)) + 1) + 1]])

\* The number of `=` at the end of a text.
RECURSIVE PadCount(_)
PadCount(text) ==
    IF text = <<>> \/ Last(text) # "=" THEN 0
    ELSE 1 + PadCount(SubSeq(text, 1, Len(text) - 1))

\* The part of a command between two of its format literals.
Between(chunk, open, close) ==
    LET i == CHOOSE k \in 1..Len(chunk) : chunk[k] = open
        j == CHOOSE k \in 1..Len(chunk) : chunk[k] = close
    IN  SubSeq(chunk, i + 1, j - 1)

\* C13: for every byte sequence base64_encode gives its standard base 64
\* text: four alphabet characters for each full group of three bytes, three
\* and one `=` for a final group of two, two and `==` for a final group of
\* one, 4 * ceil(n / 3) characters for n bytes (none for no bytes, TWFu for
\* 0x4D 0x61 0x6E); that text is what blit_bitmap puts into its command.
C13_Base64IsStandard ==
    \A i \in 2..Len(log) :
        (log[i].op = "blit_bitmap" /\ log[i].ret = "Ok") =>
            LET data == log[i].args[3].data
                n == Len(data)
                text == base64_encode(data)
            IN  /\ text = StandardBase64(data)
                /\ Len(text) = 4 * ((n + 2) \div 3)
                /\ PadCount(text) = (3 - (n % 3)) % 3
                /\ \A k \in 1..(Len(text) - PadCount(text)) :
                       \E c \in 1..64 : text[k] = BASE64_CHARS[c]
                /\ (data = <<>>) => (text = <<>>)
                /\ (data = <<77, 97, 110>>) => (text = <<"T", "W", "F", "u">>)
                /\ Between(log[i].chunk, "\"data:image/png;base64,", "\", width: ")
                       = text

\* C13 witness: five bytes were encoded, a full group and a final group of
\* two bytes, which gives seven characters and one `=`.
C13_Witness ==
    /\ Len(log) = 2
    /\ log[2].op = "blit_bitmap"
    /\ log[2].ret = "Ok"
    /\ log[2].args[3].data = <<77, 97, 110, 255, 97>>
    /\ Between(log[2].chunk, "\"data:image/png;base64,", "\", width: ")
           = <<"T", "W", "F", "u", "/", "2", "E", "=">>

\* An integer beyond 32 bits as [h, l], its value being 100000 * h + l with
\* l in 0 .. 99999.
WideOfI32(n) == [h |-> n \div 100000, l |-> n % 100000]

\* The value of a u32 as a wide integer; 2^31 is 21474 * 100000 + 83648.
WideOfU32(u) ==
    IF u.hi = 0
    THEN WideOfI32(u.lo)
    ELSE LET l == 83648 + (u.lo % 100000)
         IN  [h |-> (21474 + (u.lo \div 100000)) + (l \div 100000),
              l |-> l % 100000]

\* a - b on wide integers.
WideSub(a, b) ==
    IF a.l >= b.l
    THEN [h |-> a.h - b.h, l |-> a.l - b.l]
    ELSE [h |-> (a.h - b.h) - 1, l |-> (a.l + 100000) - b.l]

\* The five decimal digits of l in 0 .. 99999.
FiveDigits(l) ==
    << Digit(l \div 10000), Digit((l \div 1000) % 10), Digit((l \div 100) % 10),
       Digit((l \div 10) % 10), Digit(l % 10) >>

\* The decimal digits of 100000 * h + l for h >= 0.
WideDigits(h, l) == IF h = 0 THEN fmt_nat(l) ELSE fmt_nat(h) \o FiveDigits(l)

\* The decimal text of a wide integer.
WideText(w) ==
    IF w.h >= 0
    THEN WideDigits(w.h, w.l)
    ELSE <<"-">> \o (IF w.l = 0
                     THEN WideDigits(-w.h, 0)
                     ELSE WideDigits((-w.h) - 1, 100000 - w.l))

\* The decimal text of the integer c - radius, c an i32 and radius a u32.
CenterMinusRadius(c, radius) == WideText(WideSub(WideOfI32(c), WideOfU32(radius)))

\* C14: a draw_circle call in a style that is not fully transparent, whatever
\* the i32 center and the u32 radius, emits a placement with dx the integer
\* center.x - radius and dy the integer center.y - radius, and the radius as
\* it was given; center (150, 150) with radius 50 is placed at (100, 100).
C14_CirclePlacedAtCenterMinusRadius ==
    \A i \in 2..Len(log) :
        (log[i].op = "draw_circle" /\ ColorOf(log[i]).alpha # 0) =>
            LET center == log[i].args[1]
                radius == log[i].args[2]
            IN  /\ IsPrefix(<<"  ", "#place(", "dx: ">>
                                \o CenterMinusRadius(center[1], radius)
                                \o <<"pt, dy: ">>
                                \o CenterMinusRadius(center[2], radius)
                                \o <<"pt, ", "circle(", "radius: ">>
                                \o fmt_u32(radius) \o <<"pt, ">>,
                            log[i].chunk)
                /\ (center = <<150, 150>> /\ radius = u32(50)) =>
                       IsPrefix(<<"  ", "#place(", "dx: ", "1", "0", "0",
                                  "pt, dy: ", "1", "0", "0", "pt, ">>,
                                log[i].chunk)

\* A draw call that is to emit nothing: a fully transparent color, a path of
\* fewer than two points, a polygon without vertices.
IsSuppressed(e) ==
    /\ e.op \in DrawOps
    /\ \/ ColorOf(e).alpha = 0
       \/ e.op = "draw_path" /\ Len(e.args[1]) < 2
       \/ e.op = "fill_polygon" /\ e.args[1] = <<>>

\* C15: once present has succeeded (saved is set), no operation clears the
\* flag, writes the file again or emits another opening or closing line, and
\* every later draw call that is not suppressed returns success and appends
\* its command lines to the buffer, behind the closing line `]`.
C15_FinalizedIsTerminal ==
    [][self.saved =>
         /\ self'.saved
         /\ file' = file
         /\ creates' = creates
         /\ IsPrefix(buf, buf')
         /\ Openings(Lines(Emitted')) = Openings(Lines(Emitted))
         /\ Closings(Lines(Emitted')) = Closings(Lines(Emitted))
         /\ (Called(DrawOps \cup {"blit_bitmap"}) /\ ~IsSuppressed(Last(log')))
                => /\ Last(log').ret = "Ok"
                   /\ Last(log').chunk # <<>>
                   /\ buf' = buf \o Last(log').chunk
                   /\ IsCommandLine(Lines(Last(log').chunk)[1])
                   /\ Closings(Lines(Emitted)) >= 1]_vars

====
